---- MODULE Spec2Model ----
(***************************************************************************)
(* Model of app.py: the GitHub -> Telegram notifier.                       *)
(*                                                                         *)
(* The state is the module-level cursor last_event_id, the remote feed the *)
(* bot polls, and the position and locals of the one running invocation of *)
(* fetch_github_events.  A cycle is split at its blocking calls: the GET   *)
(* (one step up to the first return or to the head of the for loop), one   *)
(* step per iteration of the for loop (a renderer call and its POST), and  *)
(* the assignment that follows the loop.                                   *)
(***************************************************************************)
EXTENDS Integers, Sequences, FiniteSets

\* ------------------------------------------------------------------ bounds

\* Number of events the account ever publishes.
MaxEvents == 5

\* Number of events one GET of the events endpoint returns (its page size).
Window == 4

\* Number of events the account publishes while the scheduler is modelled.
SchedFeed == 3

\* Longest commit list a push event carries.
MaxCommits == 5

\* ------------------------------------------------------- program constants

\* for commit in commits[:3] / if commit_count > 3
PreviewCap == 3

\* if len(message) > 45
CommitBound == 45

\* if len(title) > 60
TitleBound == 60

\* if len(pr['body']) > 80
BodyBound == 80

\* schedule.every(2).minutes, in units of the 30 s the main loop sleeps.
Period == 4

\* time.sleep(30), in the same unit.
SleepTicks == 1

\* last_event_id = None
None == 0

\* if len(new_events) > 3: new_events = new_events[:3]
MaxPerCheck == 3

RecognizedTypes ==
    {"PushEvent", "PullRequestEvent", "ForkEvent", "WatchEvent", "ReleaseEvent"}

\* ------------------------------------------------------------ environment

\* The id of the n-th event the account publishes.  Ids are opaque strings:
\* the assignment is injective and deliberately not monotone in n.
EventId(n) == IF n % 2 = 1 THEN n + 1 ELSE n - 1

\* The shapes of event the feed serves.  wellformed = FALSE is an event whose
\* payload lacks a field its renderer subscripts (KeyError / TypeError).
EventShapes ==
    { [type |-> "PushEvent",        wellformed |-> TRUE],
      [type |-> "PullRequestEvent", wellformed |-> FALSE],
      [type |-> "ReleaseEvent",     wellformed |-> TRUE],
      [type |-> "GollumEvent",      wellformed |-> TRUE] }

VARIABLES
    source,         \* the account's feed, newest first
    last_event_id,  \* the global cursor
    pc,             \* "idle" | "loop": position of fetch_github_events
    events,         \* local: response.json() of the current / last cycle
    delta,          \* local new_events as built by the scan (lines 273-277)
    new_events,     \* local new_events as the for loop iterates it
    idx,            \* number of iterations of the for loop started so far
    log,            \* calls made by the current / last cycle, in order
    outcome,        \* how the current / last cycle left the function
    cursor0,        \* last_event_id as the current / last cycle read it
    earlier,        \* ids handed to a renderer in cycles before this one
    dropped,        \* ids some cycle's delta held beyond its 3 newest events
    env,            \* the three required environment values
    mpc,            \* position of the process: module body, main, its loop
    due_in,         \* 30 s ticks until the scheduled job is due (0: due)
    active,         \* invocations of fetch_github_events in progress
    frozen,         \* the feed has stopped changing and fetches succeed
    elapsed,        \* ticks the running cycle has taken, up to one period
    rin,            \* the event field a renderer is given
    rout            \* what the renderer makes of it

vars == <<source, last_event_id, pc, events, delta, new_events, idx, log,
          outcome, cursor0, earlier, dropped>>

\* The process around the cycle, and the renderers' data.
svars == <<env, mpc, due_in, active, frozen, elapsed>>
rvars == <<rin, rout>>
allvars == <<vars, svars, rvars>>

\* ---------------------------------------------------------------- helpers

Min(a, b) == IF a < b THEN a ELSE b

\* reversed(seq)
Reversed(s) == [k \in 1..Len(s) |-> s[Len(s) - k + 1]]

\* The scan with ids ordered instead of matched: stop at the first id that
\* is not greater than the cursor.
RECURSIVE ExtractDelta_Ordered(_, _)
ExtractDelta_Ordered(evts, cursor) ==
    IF evts = <<>> THEN <<>>
    ELSE IF Head(evts).id <= cursor THEN <<>>
    ELSE <<Head(evts)>> \o ExtractDelta_Ordered(Tail(evts), cursor)

\* The scan with the append placed before the test: the event carrying the
\* cursor's id is taken as new.
RECURSIVE ExtractDelta_Inclusive(_, _)
ExtractDelta_Inclusive(evts, cursor) ==
    IF evts = <<>> THEN <<>>
    ELSE IF Head(evts).id = cursor THEN <<Head(evts)>>
    ELSE <<Head(evts)>> \o ExtractDelta_Inclusive(Tail(evts), cursor)

\* The scan of lines 273-277: accumulate until an id equals the cursor.
RECURSIVE ExtractDelta(_, _)
ExtractDelta(evts, cursor) ==
    IF evts = <<>> THEN <<>>
    ELSE IF Head(evts).id = cursor THEN <<>>
    ELSE <<Head(evts)>> \o ExtractDelta(Tail(evts), cursor)

\* The cap taken from the wrong end: new_events[-3:].
Throttle_Oldest(ne) ==
    IF Len(ne) > MaxPerCheck
    THEN SubSeq(ne, Len(ne) - MaxPerCheck + 1, Len(ne)) ELSE ne

\* The cap left out.
Throttle_Off(ne) == ne

\* Lines 283-284: keep the front of the newest-first list.
Throttle(ne) ==
    IF Len(ne) > MaxPerCheck THEN SubSeq(ne, 1, MaxPerCheck) ELSE ne

\* The ids a cycle's log shows as handed to a process_*_event renderer.
Rendered(l) ==
    {l[k].id : k \in {j \in 1..Len(l) :
                        /\ l[j].id # None
                        /\ l[j].res \in {"sent", "send_failed", "render_error"}}}

\* The ids of a delta beyond its 3 newest events.
Excess(d) == {d[k].id : k \in 4..Len(d)}

\* What a cycle that starts now inherits as already dispatched.
EarlierNow == earlier \cup Rendered(log)

\* response.json(): the first page of the feed.
Page == SubSeq(source, 1, Min(Len(source), Window))

\* ------------------------------------------------------------------- Init

Init ==
    /\ source = <<>>
    /\ last_event_id = None
    /\ pc = "idle"
    /\ events = <<>>
    /\ delta = <<>>
    /\ new_events = <<>>
    /\ idx = 0
    /\ log = <<>>
    /\ outcome = "none"
    /\ cursor0 = None
    /\ earlier = {}
    /\ dropped = {}

\* ---------------------------------------------------------------- actions

\* The account does something: the feed gains a newest element.
Publish ==
    /\ pc = "idle"
    /\ Len(source) < MaxEvents
    /\ \E sh \in EventShapes :
         source' = <<[id |-> EventId(Len(source) + 1), type |-> sh.type,
                      wellformed |-> sh.wellformed]>> \o source
    /\ UNCHANGED <<last_event_id, pc, events, delta, new_events, idx, log,
                   outcome, cursor0, earlier, dropped>>
    /\ UNCHANGED <<svars, rvars>>

\* A failed fetch that also forgets the cursor.
FetchFails_Resets ==
    /\ pc = "idle"
    /\ events' = <<>>
    /\ delta' = <<>>
    /\ new_events' = <<>>
    /\ idx' = 0
    /\ log' = <<>>
    /\ outcome' = "fetch_error"
    /\ cursor0' = last_event_id
    /\ earlier' = EarlierNow
    /\ UNCHANGED dropped
    /\ last_event_id' = None
    /\ UNCHANGED <<source, pc>>
    /\ UNCHANGED <<svars, rvars>>

\* requests.get / raise_for_status / response.json() raises: lines 310-313.
FetchFails ==
    /\ pc = "idle"
    /\ events' = <<>>
    /\ delta' = <<>>
    /\ new_events' = <<>>
    /\ idx' = 0
    /\ log' = <<>>
    /\ outcome' = "fetch_error"
    /\ cursor0' = last_event_id
    /\ earlier' = EarlierNow
    /\ UNCHANGED dropped
    /\ UNCHANGED <<source, last_event_id, pc>>
    /\ UNCHANGED <<svars, rvars>>

\* if not events: return
FetchEmpty ==
    /\ pc = "idle"
    /\ Page = <<>>
    /\ events' = Page
    /\ delta' = <<>>
    /\ new_events' = <<>>
    /\ idx' = 0
    /\ log' = <<>>
    /\ outcome' = "empty"
    /\ cursor0' = last_event_id
    /\ earlier' = EarlierNow
    /\ UNCHANGED dropped
    /\ UNCHANGED <<source, last_event_id, pc>>
    /\ UNCHANGED <<svars, rvars>>

\* A cold start that arms on the wrong end of the list: events[-1]["id"].
ColdStart_Oldest ==
    /\ pc = "idle"
    /\ Page # <<>>
    /\ last_event_id = None
    /\ events' = Page
    /\ last_event_id' = Page[Len(Page)].id
    /\ \E ok \in BOOLEAN :
         log' = <<[id |-> None, res |-> IF ok THEN "sent" ELSE "send_failed"]>>
    /\ delta' = <<>>
    /\ new_events' = <<>>
    /\ idx' = 0
    /\ outcome' = "armed"
    /\ cursor0' = last_event_id
    /\ earlier' = EarlierNow
    /\ UNCHANGED dropped
    /\ UNCHANGED <<source, pc>>
    /\ UNCHANGED <<svars, rvars>>

\* A cold start without `global last_event_id`: the assignment stays local.
ColdStart_Local ==
    /\ pc = "idle"
    /\ Page # <<>>
    /\ last_event_id = None
    /\ events' = Page
    /\ last_event_id' = last_event_id
    /\ \E ok \in BOOLEAN :
         log' = <<[id |-> None, res |-> IF ok THEN "sent" ELSE "send_failed"]>>
    /\ delta' = <<>>
    /\ new_events' = <<>>
    /\ idx' = 0
    /\ outcome' = "armed"
    /\ cursor0' = last_event_id
    /\ earlier' = EarlierNow
    /\ UNCHANGED dropped
    /\ UNCHANGED <<source, pc>>
    /\ UNCHANGED <<svars, rvars>>

\* A cold start that arms only once the startup message went through.
ColdStart_ArmOnSuccess ==
    /\ pc = "idle"
    /\ Page # <<>>
    /\ last_event_id = None
    /\ events' = Page
    /\ \E ok \in BOOLEAN :
         /\ log' = <<[id |-> None, res |-> IF ok THEN "sent" ELSE "send_failed"]>>
         /\ last_event_id' = IF ok THEN Page[1].id ELSE None
    /\ delta' = <<>>
    /\ new_events' = <<>>
    /\ idx' = 0
    /\ outcome' = "armed"
    /\ cursor0' = last_event_id
    /\ earlier' = EarlierNow
    /\ UNCHANGED dropped
    /\ UNCHANGED <<source, pc>>
    /\ UNCHANGED <<svars, rvars>>

\* if last_event_id is None: set the cursor, send the startup message, return.
ColdStart ==
    /\ pc = "idle"
    /\ Page # <<>>
    /\ last_event_id = None
    /\ events' = Page
    /\ last_event_id' = Page[1].id
    /\ \E ok \in BOOLEAN :
         log' = <<[id |-> None, res |-> IF ok THEN "sent" ELSE "send_failed"]>>
    /\ delta' = <<>>
    /\ new_events' = <<>>
    /\ idx' = 0
    /\ outcome' = "armed"
    /\ cursor0' = last_event_id
    /\ earlier' = EarlierNow
    /\ UNCHANGED dropped
    /\ UNCHANGED <<source, pc>>
    /\ UNCHANGED <<svars, rvars>>

\* The scan finds nothing new: if not new_events: return
NoNewEvents ==
    /\ pc = "idle"
    /\ Page # <<>>
    /\ last_event_id # None
    /\ ExtractDelta(Page, last_event_id) = <<>>
    /\ events' = Page
    /\ delta' = <<>>
    /\ new_events' = <<>>
    /\ idx' = 0
    /\ log' = <<>>
    /\ outcome' = "noop"
    /\ cursor0' = last_event_id
    /\ earlier' = EarlierNow
    /\ UNCHANGED dropped
    /\ UNCHANGED <<source, last_event_id, pc>>
    /\ UNCHANGED <<svars, rvars>>

\* The scan finds new events: cap them and enter the for loop.
BeginDispatch ==
    /\ pc = "idle"
    /\ Page # <<>>
    /\ last_event_id # None
    /\ ExtractDelta(Page, last_event_id) # <<>>
    /\ events' = Page
    /\ delta' = ExtractDelta(Page, last_event_id)
    /\ new_events' = Throttle(ExtractDelta(Page, last_event_id))
    /\ idx' = 0
    /\ log' = <<>>
    /\ outcome' = "running"
    /\ cursor0' = last_event_id
    /\ earlier' = EarlierNow
    /\ dropped' = dropped \cup Excess(ExtractDelta(Page, last_event_id))
    /\ pc' = "loop"
    /\ UNCHANGED <<source, last_event_id>>
    /\ UNCHANGED <<svars, rvars>>

\* The event the next iteration of `for event in reversed(new_events)` binds.
Current == Reversed(new_events)[idx + 1]

\* One iteration whose renderer builds its text and calls
\* send_telegram_message, which returns True or False and never raises.
DispatchEvent ==
    /\ pc = "loop"
    /\ idx < Len(new_events)
    /\ Current.type \in RecognizedTypes
    /\ Current.wellformed
    /\ \E ok \in BOOLEAN :
         log' = Append(log, [id |-> Current.id,
                             res |-> IF ok THEN "sent" ELSE "send_failed"])
    /\ idx' = idx + 1
    /\ UNCHANGED <<source, last_event_id, pc, events, delta, new_events,
                   outcome, cursor0, earlier, dropped>>
    /\ UNCHANGED <<svars, rvars>>

\* One iteration whose renderer raises before it reaches the send: the
\* exception leaves the for loop and is caught by `except Exception` (312).
RenderRaises ==
    /\ pc = "loop"
    /\ idx < Len(new_events)
    /\ Current.type \in RecognizedTypes
    /\ ~Current.wellformed
    /\ log' = Append(log, [id |-> Current.id, res |-> "render_error"])
    /\ idx' = idx + 1
    /\ pc' = "idle"
    /\ outcome' = "aborted"
    /\ UNCHANGED <<source, last_event_id, events, delta, new_events,
                   cursor0, earlier, dropped>>
    /\ UNCHANGED <<svars, rvars>>

\* One iteration on a type no branch of the if/elif chain matches.
SkipEvent ==
    /\ pc = "loop"
    /\ idx < Len(new_events)
    /\ Current.type \notin RecognizedTypes
    /\ log' = Append(log, [id |-> Current.id, res |-> "ignored"])
    /\ idx' = idx + 1
    /\ UNCHANGED <<source, last_event_id, pc, events, delta, new_events,
                   outcome, cursor0, earlier, dropped>>
    /\ UNCHANGED <<svars, rvars>>

\* After the loop: last_event_id = events[0]["id"]
AdvanceCursor ==
    /\ pc = "loop"
    /\ idx = Len(new_events)
    /\ last_event_id' = events[1].id
    /\ pc' = "idle"
    /\ outcome' = "completed"
    /\ UNCHANGED <<source, events, delta, new_events, idx, log, cursor0,
                   earlier, dropped>>
    /\ UNCHANGED <<svars, rvars>>

Next ==
    \/ Publish
    \/ FetchFails
    \/ FetchEmpty
    \/ ColdStart
    \/ NoNewEvents
    \/ BeginDispatch
    \/ DispatchEvent
    \/ RenderRaises
    \/ SkipEvent
    \/ AdvanceCursor

\* The cycle on its own: main starts fetch_github_events again and again,
\* with a configuration that passed the check of lines 22-25.
ProcessIdle ==
    /\ env = [GITHUB_USERNAME |-> "set", TELEGRAM_BOT_TOKEN |-> "set",
              TELEGRAM_CHAT_ID |-> "set"]
    /\ mpc = "cycles"
    /\ due_in = 0
    /\ active = 0
    /\ frozen = FALSE
    /\ elapsed = 0

\* No renderer has been given anything.
NoInput == [field |-> "none"]
NotRendered == [done |-> FALSE]

RenderIdle ==
    /\ rin = NoInput
    /\ rout = NotRendered

\* The state in which fetch_github_events is first called: configured,
\* inside main, no renderer entered.
CycleInit ==
    /\ Init
    /\ ProcessIdle
    /\ RenderIdle

Spec == CycleInit /\ [][Next]_allvars

\* ------------------------------------------------- the process around it

EnvValues == {"absent", "empty", "set"}

EnvNames == {"GITHUB_USERNAME", "TELEGRAM_BOT_TOKEN", "TELEGRAM_CHAT_ID"}

\* all(required_vars): None and "" are falsy.
AllSet == \A n \in EnvNames : env[n] = "set"

\* any(required_vars) in place of all(required_vars).
AnySet == \E n \in EnvNames : env[n] = "set"

InCycle == mpc \in {"in_initial", "in_job"}

SchedInit ==
    /\ Init
    /\ RenderIdle
    /\ env \in [EnvNames -> EnvValues]
    /\ mpc = "import"
    /\ due_in = 0
    /\ active = 0
    /\ frozen = FALSE
    /\ elapsed = 0

\* The check written with any() in place of all().
ValidateEnv_Any ==
    /\ mpc = "import"
    /\ mpc' = IF AnySet THEN "main" ELSE "exit_1"
    /\ UNCHANGED <<vars, env, due_in, active, frozen, elapsed, rvars>>

\* if not all(required_vars): print(...); exit(1)
ValidateEnv ==
    /\ mpc = "import"
    /\ mpc' = IF AllSet THEN "main" ELSE "exit_1"
    /\ UNCHANGED <<vars, env, due_in, active, frozen, elapsed, rvars>>

\* main: schedule.every(2).minutes.do(fetch_github_events)
MainSchedules ==
    /\ mpc = "main"
    /\ due_in' = Period
    /\ mpc' = "call_initial"
    /\ UNCHANGED <<vars, env, active, frozen, elapsed, rvars>>

\* main: the initial fetch_github_events() of line 325.
CallInitial ==
    /\ mpc = "call_initial"
    /\ pc = "idle"
    /\ active' = active + 1
    /\ outcome' = "called"
    /\ elapsed' = 0
    /\ mpc' = "in_initial"
    /\ UNCHANGED <<source, last_event_id, pc, events, delta, new_events, idx,
                   log, cursor0, earlier, dropped, env, due_in, frozen, rvars>>

\* A scheduler that hands a due job to a thread of its own and goes on.
RunPendingDue_Threaded ==
    /\ mpc = "pending"
    /\ due_in = 0
    /\ active' = active + 1
    /\ due_in' = Period
    /\ mpc' = "sleep"
    /\ UNCHANGED <<vars, env, frozen, elapsed, rvars>>

\* schedule.run_pending() with the job due: it calls fetch_github_events in
\* the calling thread and returns when the function has returned.
RunPendingDue ==
    /\ mpc = "pending"
    /\ due_in = 0
    /\ pc = "idle"
    /\ active' = active + 1
    /\ outcome' = "called"
    /\ elapsed' = 0
    /\ mpc' = "in_job"
    /\ UNCHANGED <<source, last_event_id, pc, events, delta, new_events, idx,
                   log, cursor0, earlier, dropped, env, due_in, frozen, rvars>>

\* schedule.run_pending() with nothing due.
RunPendingIdle ==
    /\ mpc = "pending"
    /\ due_in > 0
    /\ mpc' = "sleep"
    /\ UNCHANGED <<vars, env, due_in, active, frozen, elapsed, rvars>>

\* time.sleep(30)
Sleep ==
    /\ mpc = "sleep"
    /\ due_in' = IF due_in > SleepTicks THEN due_in - SleepTicks ELSE 0
    /\ mpc' = "pending"
    /\ UNCHANGED <<vars, env, active, frozen, elapsed, rvars>>

\* Time passes inside the cycle's blocking calls (GET, POST, time.sleep(1.5)).
Elapse ==
    /\ InCycle
    /\ elapsed < Period
    /\ elapsed' = elapsed + 1
    /\ due_in' = IF due_in > 0 THEN due_in - 1 ELSE 0
    /\ UNCHANGED <<vars, env, mpc, active, frozen, rvars>>

\* The steps of fetch_github_events, run inside a call of it.
CycleFetchFails == InCycle /\ outcome = "called" /\ ~frozen /\ FetchFails
CycleFetchEmpty == InCycle /\ outcome = "called" /\ FetchEmpty
CycleColdStart == InCycle /\ outcome = "called" /\ ColdStart
CycleNoNewEvents == InCycle /\ outcome = "called" /\ NoNewEvents
CycleBeginDispatch == InCycle /\ outcome = "called" /\ BeginDispatch
CycleDispatchEvent == InCycle /\ DispatchEvent
CycleSkipEvent == InCycle /\ SkipEvent
CycleAdvanceCursor == InCycle /\ AdvanceCursor

\* A renderer's exception that no handler of fetch_github_events catches: it
\* reaches main's `except Exception` and ends the loop.
CycleRenderRaises_Escapes ==
    /\ InCycle
    /\ pc = "loop"
    /\ idx < Len(new_events)
    /\ Current.type \in RecognizedTypes
    /\ ~Current.wellformed
    /\ log' = Append(log, [id |-> Current.id, res |-> "render_error"])
    /\ idx' = idx + 1
    /\ pc' = "idle"
    /\ outcome' = "aborted"
    /\ active' = active - 1
    /\ mpc' = "crashed"
    /\ UNCHANGED <<source, last_event_id, events, delta, new_events,
                   cursor0, earlier, dropped, env, due_in, frozen, elapsed, rvars>>

\* The exception of a renderer is caught inside fetch_github_events.
CycleRenderRaises == InCycle /\ RenderRaises

\* fetch_github_events returns to its caller.
Return ==
    /\ InCycle
    /\ pc = "idle"
    /\ outcome # "called"
    /\ active' = active - 1
    /\ mpc' = IF mpc = "in_initial" THEN "pending" ELSE "sleep"
    /\ due_in' = IF mpc = "in_initial" THEN due_in ELSE Period
    /\ elapsed' = 0
    /\ UNCHANGED <<vars, env, frozen, rvars>>

\* The account acts between two polls.
FeedGrows ==
    /\ mpc \in {"main", "sleep"}
    /\ ~frozen
    /\ Len(source) < SchedFeed
    /\ Publish

\* From here on the feed stays as it is and every GET succeeds.
Freeze ==
    /\ mpc = "sleep"
    /\ ~frozen
    /\ frozen' = TRUE
    /\ UNCHANGED <<vars, env, mpc, due_in, active, elapsed, rvars>>

ProcessNext ==
    \/ ValidateEnv
    \/ MainSchedules
    \/ CallInitial
    \/ RunPendingDue
    \/ RunPendingIdle
    \/ Sleep
    \/ CycleFetchFails
    \/ CycleFetchEmpty
    \/ CycleColdStart
    \/ CycleNoNewEvents
    \/ CycleBeginDispatch
    \/ CycleDispatchEvent
    \/ CycleRenderRaises
    \/ CycleSkipEvent
    \/ CycleAdvanceCursor
    \/ Return

SchedNext ==
    \/ ProcessNext
    \/ Elapse
    \/ FeedGrows
    \/ Freeze

SchedSpec == SchedInit /\ [][SchedNext]_allvars

\* The process is a single thread that never blocks for good: every call has
\* a timeout, so its next step is always taken.
FairSchedSpec == SchedSpec /\ WF_allvars(ProcessNext)

\* --------------------------------------------------------- the renderers
\* A text is the sequence of the lengths of its lines: "ab\ncde" is <<2, 3>>
\* and "" is <<0>>.  Truncation and first-line reduction depend on nothing
\* else of a string.

RECURSIVE SumOf(_)
SumOf(t) == IF t = <<>> THEN 0 ELSE Head(t) + SumOf(Tail(t))

\* len(text): the characters of the lines and the newlines between them.
StrLen(t) == SumOf(t) + Len(t) - 1

\* text.split('\n')[0]
FirstLine(t) == <<t[1]>>

\* text[:k]
RECURSIVE Slice(_, _)
Slice(t, k) ==
    IF t[1] >= k THEN <<k>>
    ELSE IF Len(t) = 1 THEN t
    ELSE <<t[1]>> \o Slice(Tail(t), k - t[1] - 1)

\* if len(text) > bound: text = text[:bound] + "..."
Ellipsis(t, bound) ==
    IF StrLen(t) > bound
    THEN [text |-> Slice(t, bound), ellipsis |-> TRUE]
    ELSE [text |-> t, ellipsis |-> FALSE]

\* process_push_event, lines 108-110: one line of the commit preview.
CommitLine(message) == Ellipsis(FirstLine(message), CommitBound)

\* The summary line added from the third commit on.
PushText_FromThird(commits) ==
    IF commits # <<>>
    THEN [done |-> TRUE,
          lines |-> [k \in 1..Min(Len(commits), PreviewCap) |->
                        CommitLine(commits[k])],
          more |-> IF Len(commits) >= PreviewCap
                   THEN <<Len(commits) - PreviewCap>> ELSE <<>>,
          placeholder |-> FALSE,
          count |-> Len(commits)]
    ELSE [done |-> TRUE, lines |-> <<>>, more |-> <<>>, placeholder |-> TRUE,
          count |-> 0]

\* process_push_event, lines 103-120 and 129: the preview lines, the number
\* the "... and N more" line states (<<>>: no such line), and the footer
\* count.
PushText(commits) ==
    IF commits # <<>>
    THEN [done |-> TRUE,
          lines |-> [k \in 1..Min(Len(commits), PreviewCap) |->
                        CommitLine(commits[k])],
          more |-> IF Len(commits) > PreviewCap
                   THEN <<Len(commits) - PreviewCap>> ELSE <<>>,
          placeholder |-> FALSE,
          count |-> Len(commits)]
    ELSE [done |-> TRUE, lines |-> <<>>, more |-> <<>>, placeholder |-> TRUE,
          count |-> 0]

\* process_pull_request_event, lines 156-158.
TitleText(title) ==
    [done |-> TRUE, shown |-> TRUE, value |-> Ellipsis(title, TitleBound)]

\* process_pull_request_event, lines 166-168: a missing or empty body adds
\* no line.
BodyText(present, body) ==
    IF present /\ StrLen(body) > 0
    THEN [done |-> TRUE, shown |-> TRUE, value |-> Ellipsis(body, BodyBound)]
    ELSE [done |-> TRUE, shown |-> FALSE, value |-> Ellipsis(<<0>>, BodyBound)]

\* Line lengths around the three bounds.
LineLens == {0, 1, 44, 45, 46, 59, 60, 61, 79, 80, 81}

Texts == {<<a>> : a \in LineLens} \cup {<<a, b>> : a \in LineLens, b \in {0, 2}}

\* Commit messages told apart by their rendering.
Messages == {<<1>>, <<46>>, <<2, 2>>}

CommitLists ==
    UNION {[1..n -> Messages] : n \in 0..MaxCommits} \cup {<<t>> : t \in Texts}

RenderInputs ==
    {[field |-> "commits", present |-> TRUE, text |-> <<0>>, commits |-> c] :
        c \in CommitLists}
    \cup {[field |-> "title", present |-> TRUE, text |-> t, commits |-> <<>>] :
        t \in Texts}
    \cup {[field |-> "body", present |-> b, text |-> t, commits |-> <<>>] :
        b \in BOOLEAN, t \in Texts}

RenderInit ==
    /\ Init
    /\ ProcessIdle
    /\ rin \in RenderInputs
    /\ rout = NotRendered

RenderPush ==
    /\ rin.field = "commits"
    /\ ~rout.done
    /\ rout' = PushText(rin.commits)
    /\ UNCHANGED <<vars, svars, rin>>

RenderTitle ==
    /\ rin.field = "title"
    /\ ~rout.done
    /\ rout' = TitleText(rin.text)
    /\ UNCHANGED <<vars, svars, rin>>

RenderBody ==
    /\ rin.field = "body"
    /\ ~rout.done
    /\ rout' = BodyText(rin.present, rin.text)
    /\ UNCHANGED <<vars, svars, rin>>

RenderNext ==
    \/ RenderPush
    \/ RenderTitle
    \/ RenderBody

RenderSpec == RenderInit /\ [][RenderNext]_allvars

\* ================================================================ claims

\* A step that runs fetch_github_events from its entry: the function is
\* entered only when idle, and the feed is not what changes.
CycleStarts == pc = "idle" /\ source' = source

\* The last cycle was an ARMED one that entered the for loop and has left it.
LoopLeft == pc = "idle" /\ outcome \in {"completed", "aborted"}

\* ---- C1
\* C1: No event id is handed to a renderer in more than one cycle: the ids
\* the current cycle has rendered are disjoint from those of earlier cycles.
C1_NoDuplicateDelivery == Rendered(log) \cap earlier = {}

\* ---- C2
\* C2: A cycle that starts with the cursor unset and fetches a non-empty list
\* makes exactly one sink call, the startup message, makes no call for any
\* event, returns, and leaves the cursor at the id of the first fetched
\* element.
C2_ColdStart ==
    [][ (CycleStarts /\ last_event_id = None /\ Page # <<>>
            /\ outcome' # "fetch_error")
        => /\ Len(log') = 1
           /\ log'[1].id = None
           /\ log'[1].res \in {"sent", "send_failed"}
           /\ last_event_id' = Page[1].id
           /\ pc' = "idle" ]_vars

C2_Witness ==
    /\ outcome = "armed"
    /\ cursor0 = None
    /\ Len(events) >= 2
    /\ last_event_id = events[1].id

\* ---- C3
\* C3: In an ARMED cycle the delta is a prefix of the fetched list, none of
\* its elements carries the cursor's id, and it stops short of the end of the
\* list only at an element that does carry it.
C3_ExactDelta ==
    outcome \in {"noop", "running", "completed", "aborted"}
    => /\ Len(delta) <= Len(events)
       /\ \A k \in 1..Len(delta) : delta[k] = events[k] /\ events[k].id # cursor0
       /\ Len(delta) < Len(events) => events[Len(delta) + 1].id = cursor0

C3_Witness ==
    /\ outcome = "running"
    /\ Len(delta) = 2
    /\ Len(events) = 4
    /\ events[3].id = cursor0

\* ---- C4
\* C4: In an ARMED cycle the batch is the first min(len(delta), 3) elements
\* of the newest-first delta, the events are taken from it oldest first, at
\* most 3 are taken, and a cycle that completes has taken all of them.
C4_ThrottleCorrect ==
    outcome \in {"running", "completed", "aborted"}
    => LET n == Min(Len(delta), 3) IN
       /\ Len(new_events) = n
       /\ \A k \in 1..n : new_events[k] = delta[k]
       /\ Len(log) <= n
       /\ \A k \in 1..Len(log) : log[k].id = delta[n - k + 1].id
       /\ outcome = "completed" => Len(log) = n

C4_Witness ==
    /\ outcome = "completed"
    /\ Len(delta) = 4
    /\ Len(log) = 3
    /\ log[1].id = delta[3].id
    /\ log[3].id = delta[1].id

\* ---- C5
\* C5: At the end of every ARMED cycle whose fetch returned a non-empty list
\* the cursor is the id of the first fetched element.
C5_CursorAlwaysAdvances ==
    (pc = "idle" /\ outcome \in {"noop", "completed", "aborted"})
    => last_event_id = events[1].id

\* ---- C6
\* C6: If a sink call failed for an event of the batch, then by the end of
\* the cycle every event of the batch has been taken, in order, and the
\* cursor is the id of the first fetched element.
C6_SendFailureIsolated ==
    (LoopLeft /\ \E k \in 1..Len(log) : log[k].res = "send_failed")
    => /\ Len(log) = Len(new_events)
       /\ \A k \in 1..Len(log) : log[k].id = Reversed(new_events)[k].id
       /\ last_event_id = events[1].id

\* ---- C7
\* C7: A renderer that raises costs only its own event: by the end of the
\* cycle every event of the batch has been processed.
C7_RenderFailureIsolated ==
    LoopLeft => Len(log) = Len(new_events)

\* ---- C8
\* C8: A cycle whose fetch fails or returns an empty list makes no sink call
\* and leaves the cursor as it was, set or unset.
C8_FetchFailureKeepsState ==
    [][ (CycleStarts /\ outcome' \in {"fetch_error", "empty"})
        => /\ last_event_id' = last_event_id
           /\ log' = <<>>
           /\ pc' = "idle" ]_vars

C8_Witness ==
    /\ outcome = "fetch_error"
    /\ last_event_id # None
    /\ source # <<>>
    /\ source[1].id # last_event_id

\* ---- C9
\* C9: An ARMED cycle whose fetched list starts with the cursor's id makes no
\* sink call, takes no event and leaves the cursor unchanged.
C9_IdempotentNoOp ==
    [][ (CycleStarts /\ last_event_id # None /\ Page # <<>>
            /\ Page[1].id = last_event_id /\ outcome' # "fetch_error")
        => /\ log' = <<>>
           /\ last_event_id' = last_event_id
           /\ pc' = "idle" ]_vars

C9_Witness ==
    /\ outcome = "noop"
    /\ Len(events) >= 2
    /\ events[1].id = last_event_id
    /\ earlier # {}

\* ---- C10
\* C10: By the end of a cycle whose batch holds an event of an unrecognized
\* type, that event has caused no sink call and no error, every other event
\* of the batch has been handed to its renderer, and the cursor is the id of
\* the first fetched element.
C10_UnrecognizedTypeSkipped ==
    (LoopLeft /\ \E k \in 1..Len(new_events) :
                    new_events[k].type \notin RecognizedTypes)
    => /\ \A k \in 1..Len(new_events) :
            LET e == new_events[k] IN
            IF e.type \in RecognizedTypes
            THEN e.id \in Rendered(log)
            ELSE \A j \in 1..Len(log) : log[j].id = e.id => log[j].res = "ignored"
       /\ last_event_id = events[1].id

\* ---- C13
\* The ids of the events a cycle's for loop has taken.
Taken(l) == {l[k].id : k \in {j \in 1..Len(l) : l[j].id # None}}

\* The place of an event in the account's history: 1 is the oldest.
Chron(id) == CHOOSE k \in 1..Len(source) : source[Len(source) - k + 1].id = id

\* C13: An event that some cycle's delta held beyond its 3 newest events is
\* taken by the for loop neither in that cycle nor in any later one.
C13_ExcessDropped == Taken(log) \cap dropped = {}

\* A cycle that meets again the delta an earlier, aborted cycle has capped:
\* its oldest batch event was rendered before, the event behind it never.
C13_Witness ==
    /\ outcome = "running"
    /\ Len(log) >= 1
    /\ Len(delta) = 4
    /\ delta[3].id \in earlier
    /\ delta[4].id \in dropped \ earlier

\* ---- C14
\* C14: The renderer calls of all cycles follow the account's history: within
\* a cycle they go from older to newer, and no event rendered in this cycle
\* is older than an event rendered in an earlier cycle.
C14_ChronologicalStream ==
    /\ \A j, k \in 1..Len(log) :
          (j < k /\ log[j].id \in Rendered(log) /\ log[k].id \in Rendered(log))
          => Chron(log[j].id) < Chron(log[k].id)
    /\ \A a \in earlier : \A b \in Rendered(log) : Chron(a) <= Chron(b)

\* ---- C18
StartupCalls(l) == {k \in 1..Len(l) : l[k].id = None}

\* C18: A set cursor is never unset again; a cycle sends the startup message
\* only if it starts with the cursor unset and sets it, and every cycle that
\* starts with the cursor unset and fetches a non-empty list does send it.
C18_ArmingOneWay ==
    [][ /\ last_event_id # None => last_event_id' # None
        /\ (CycleStarts /\ StartupCalls(log') # {})
           => (last_event_id = None /\ last_event_id' # None)
        /\ (CycleStarts /\ last_event_id = None /\ Page # <<>>
               /\ outcome' # "fetch_error")
           => Cardinality(StartupCalls(log')) = 1 ]_vars

C18_Witness ==
    /\ last_event_id # None
    /\ outcome = "completed"
    /\ earlier # {}
    /\ StartupCalls(log) = {}

\* ---- C19
\* The last cycle armed the cursor and its startup message was not delivered.
ArmedUndelivered ==
    /\ pc = "idle"
    /\ outcome = "armed"
    /\ log = <<[id |-> None, res |-> "send_failed"]>>

\* C19: After a cold start whose startup send failed the cursor is the first
\* fetched id; the cycle that follows sends no startup message and its batch
\* holds only events newer than that cursor; and no cycle that starts with a
\* set cursor sends the startup message.
C19_ArmsWithoutDelivery ==
    [][ /\ ArmedUndelivered
           => /\ last_event_id = events[1].id
              /\ (CycleStarts /\ outcome' # "fetch_error")
                 => /\ StartupCalls(log') = {}
                    /\ last_event_id' # None
                    /\ \A k \in 1..Len(new_events') :
                          Chron(new_events'[k].id) > Chron(last_event_id)
        /\ (CycleStarts /\ last_event_id # None) => StartupCalls(log') = {} ]_vars

C19_Witness ==
    /\ ArmedUndelivered
    /\ last_event_id = events[1].id
    /\ Len(source) > Len(events)

\* ---- C11
\* C11: Never are two invocations of fetch_github_events in progress: one
\* starts only when none is running, however long the running one takes, and
\* the cursor changes only inside the one invocation in progress.
C11_NoOverlap ==
    /\ [](active <= 1 /\ (pc = "loop" => active = 1))
    /\ [][ /\ active' > active => active = 0
           /\ last_event_id' # last_event_id => (active = 1 /\ active' = 1)
       ]_allvars

\* A cycle that has outlasted the scheduling period and is still in its loop.
C11_Witness ==
    /\ mpc = "in_job"
    /\ elapsed = Period
    /\ pc = "loop"
    /\ active = 1

\* ---- C12
\* A cycle that hit a fetch, render or send failure has just ended.
FailedCycle ==
    /\ InCycle
    /\ pc = "idle"
    /\ \/ outcome \in {"fetch_error", "aborted"}
       \/ \E k \in 1..Len(log) : log[k].res = "send_failed"

\* C12: No failure inside a cycle ends the main loop, and after every cycle
\* that failed the scheduler calls fetch_github_events again.
C12_ErrorContainment ==
    /\ [](mpc # "crashed")
    /\ [](FailedCycle => <>(outcome = "called"))

C12_Witness ==
    /\ FailedCycle
    /\ mpc = "in_job"
    /\ outcome = "aborted"
    /\ Len(log) = 2
    /\ log[1].res = "send_failed"

\* ---- C15
\* C15: With a required value absent or empty the process leaves the module
\* body only by exit(1): main is never entered, no invocation starts, no
\* fetch and no send happens.
C15_ConfigGate ==
    /\ [](~AllSet => /\ mpc \in {"import", "exit_1"}
                     /\ active = 0
                     /\ outcome = "none"
                     /\ log = <<>>)
    /\ [][(mpc = "import" /\ ~AllSet) => mpc' = "exit_1"]_allvars

C15_Witness ==
    /\ mpc = "exit_1"
    /\ env = [GITHUB_USERNAME |-> "set", TELEGRAM_BOT_TOKEN |-> "set",
              TELEGRAM_CHAT_ID |-> "empty"]

\* ---- C20
\* The cursor is at the newest event of the feed and the last cycle made no
\* call.
Quiescent ==
    /\ log = <<>>
    /\ source # <<>> => last_event_id = source[1].id

\* C20: Once the feed has stopped changing and fetches succeed, the system
\* reaches, and then stays in, a state where the cursor is the newest id of
\* the feed and no cycle makes a sink call.
C20_Quiescence == [](frozen => <>[]Quiescent)

\* ---- C16
\* What the rule of the claim makes of a text: its first line, cut to the
\* bound and marked when longer.
FirstLineCut(t, bound) ==
    IF t[1] > bound
    THEN [text |-> <<bound>>, ellipsis |-> TRUE]
    ELSE [text |-> <<t[1]>>, ellipsis |-> FALSE]

\* C16: Every rendered commit message, pull-request title and pull-request
\* description is the first line of its text, cut to 45, 60 and 80 characters
\* and followed by "..." when longer, unchanged otherwise.
C16_UniformTruncation ==
    rout.done =>
      /\ rin.field = "commits" =>
           \A k \in 1..Len(rout.lines) :
              rout.lines[k] = FirstLineCut(rin.commits[k], 45)
      /\ rin.field = "title" => rout.value = FirstLineCut(rin.text, 60)
      /\ (rin.field = "body" /\ rout.shown) =>
           rout.value = FirstLineCut(rin.text, 80)

\* ---- C17
\* C17: A push with n commits renders min(n, 3) commit lines, those of the
\* first commits in list order, a summary line stating n - 3 exactly when
\* n > 3, and n as the footer's count.
C17_CommitPreviewCap ==
    (rout.done /\ rin.field = "commits") =>
      LET n == Len(rin.commits) IN
      /\ Len(rout.lines) = Min(n, 3)
      /\ \A k \in 1..Len(rout.lines) :
            rout.lines[k] = FirstLineCut(rin.commits[k], 45)
      /\ Len(rout.more) = (IF n > 3 THEN 1 ELSE 0)
      /\ n > 3 => rout.more[1] = n - 3
      /\ rout.count = n

C17_Witness ==
    /\ rout.done
    /\ rin.field = "commits"
    /\ Len(rin.commits) = 5
    /\ rout.more = <<2>>
    /\ Len(rout.lines) = 3
    /\ rin.commits[1] # rin.commits[2]

====
